---- MODULE Spec2Model ----
(***************************************************************************)
(* A model of collector/global_state.py: the GlobalState object shared by  *)
(* the collector's threads.  Every method of GlobalState is a sequence of  *)
(* atomic steps of the calling thread (one step per operation on a shared  *)
(* object: one Queue.Queue call, one lock operation, one attribute load or *)
(* store), and the steps of different threads interleave freely.           *)
(***************************************************************************)
EXTENDS Integers, Sequences, FiniteSets, TLC

(***************************************************************************)
(* Bounds of the model.                                                    *)
(***************************************************************************)
NumThreads == 2
MaxAdds == 3               \* add_elapsed calls in one behaviour
MaxDrains == 2             \* get_elapsed calls in one behaviour
MaxPriorityCalls == 4      \* get_random_priority calls in one behaviour
MaxSetTesting == 2         \* set_testing calls in one behaviour
MaxInits == 2              \* init_caches_and_synchronization calls
MaxRelationSets == 2       \* set_relations_to_timestamps calls
MaxRelationGets == 2       \* get_relations_to_timestamps calls
MaxWorkersCalls == 2       \* set_num_workers calls
MaxAddFailures == 1        \* add_elapsed calls with an invalid argument
MaxLogCalls == 3           \* logger_debug .. logger_exception calls
MaxSetLogger == 1          \* set_logger calls
MaxLockCalls == 3          \* calls in one behaviour of all the methods together
MaxCachePuts == 2          \* puts into the caches
MaxTime == 2               \* the last instant of the clock
MAX_CACHED_DATA_AGE_SECONDS == 1     \* constants.MAX_CACHED_DATA_AGE_SECONDS, scaled
CACHE_DATA_CLEANUP_AGE_SECONDS == 2  \* constants.CACHE_DATA_CLEANUP_AGE_SECONDS, scaled
MAX_ELAPSED_QUEUE_SIZE == 2          \* constants.MAX_ELAPSED_QUEUE_SIZE, scaled
MAX_CONCURRENT_COMPUTE_GRAPH == 1    \* constants.MAX_CONCURRENT_COMPUTE_GRAPH, scaled

Threads == 1..NumThreads

None == 0                  \* Python's None, for a reference
Free == 0                  \* a threading.Lock nobody holds

\* Arguments a caller passes to add_elapsed (all of them valid).
StartTimes == {1, 2}
Labels == {"url"}
ElapsedSeconds == {1}

NoArgs == [start_time |-> 0, what |-> "", elapsed_seconds |-> 0]

\* drain_first[t] of a thread t outside get_elapsed.
NoRound == [len |-> 0, others |-> <<>>, puts |-> 0]

\* A Python object an argument can be: its type and its value.
PyValue(type, value) == [type |-> type, value |-> value]

\* Relation maps: from relation identifiers to timestamps.
EmptyMap == <<>>
Mappings == {"r1" :> 1, "r2" :> 2}

\* What a caller passes to set_relations_to_timestamps: a dict, or a list of
\* pairs, which is not a mapping.
RelationArgs ==
  {PyValue("dict", m) : m \in Mappings} \cup {PyValue("list", m) : m \in Mappings}

\* What a caller passes to set_num_workers: an int or a float.
WorkersArgs == {PyValue("int", 1), PyValue("int", 2), PyValue("float", 2)}

NoValue == PyValue("none", EmptyMap)

\* The four caches, the keys and what a cache's get returns: the value of a
\* fresh entry, or a miss.
CacheKinds == {"nodes", "pods", "services", "rcontrollers"}
CacheKeys == {"k"}
Hit(value) == [hit |-> TRUE, value |-> value]
Miss == [hit |-> FALSE, value |-> 0]
NoResult == [hit |-> FALSE, value |-> -1]
NoPut == [exists |-> FALSE, time |-> 0, value |-> 0]
NoSight == [now |-> 0, put |-> NoPut]

\* What a caller passes to add_elapsed: floats or ints as the two times, and a
\* label with what utilities.valid_string answers for it.
TimeArgs == {PyValue("float", 1), PyValue("int", 1)}
LabelArgs == {[valid |-> TRUE, value |-> "url"], [valid |-> FALSE, value |-> ""]}

VARIABLES
  pc,                  \* pc[t]: where thread t is in the method it is running
  testing,             \* self._testing
  random_lock,         \* self._random_lock: Free or the thread holding it
  sequence_number,     \* self._sequence_number
  nodes_cache,         \* self._nodes_cache: None or the cache a call made
  pods_cache,          \* self._pods_cache
  services_cache,      \* self._services_cache
  rcontrollers_cache,  \* self._rcontrollers_cache
  bounded_semaphore,   \* self._bounded_semaphore
  init_gen,            \* init_gen[t]: the number of t's init_caches_and_synchronization call
  sem_value,           \* sem_value[s]: the free permits of BoundedSemaphore s
  elapsed_queue,       \* self._elapsed_queue, head first
  add_args,            \* add_args[t]: the arguments of t's add_elapsed call
  result,              \* result[t]: the local 'result' of t's get_elapsed call
  rand_tmp,            \* rand_tmp[t]: the value loaded by 'self._sequence_number += 1'
  rand_ret,            \* rand_ret[t]: the value get_random_priority returns to t
  mode,                \* mode[t]: the branch t's get_random_priority call took
  acc_what,            \* acc_what[t]: the accessor t called
  acc_ret,             \* acc_ret[t]: the reference the accessor returned to t
  sem_ref,             \* sem_ref[t]: the semaphore t acquires, holds or releases
  \* history variables: they record what happened and no step reads them
  inserted,            \* every record put in the queue, in the order of the puts
  drain_mark,          \* Len(inserted) when the last get_elapsed call returned
  drains,              \* get_elapsed calls begun
  snaps,               \* snaps[t]: the contents the queue had during t's get_elapsed
  drain_first,         \* drain_first[t]: the queue's length, where the other threads
                       \* were and the records put, when t's get_elapsed began
  returned,            \* returned[n]: how many get_elapsed calls returned record n
  discarded,           \* discarded[n]: how many times add_elapsed discarded record n
  test_returns,        \* the values returned in testing mode, in lock order
  priority_calls,      \* get_random_priority calls begun
  set_testing_calls,   \* set_testing calls
  first_mode,          \* the mode of the first get_random_priority call
  set_since_first,     \* set_testing was called after that first call
  inits_begun,         \* init_caches_and_synchronization calls begun
  inits_done,          \* init_caches_and_synchronization calls completed
  acc_phase,           \* acc_phase[t]: when t's accessor ran: before, during or after
                       \* the initialization
  relations_lock,      \* self._relations_lock: Free or the thread holding it
  relations_to_timestamps,  \* self._relations_to_timestamps
  rel_arg,             \* rel_arg[t]: the argument v of t's set_relations_to_timestamps call
  rel_ret,             \* rel_ret[t]: what get_relations_to_timestamps returns to t
  num_workers,         \* self._num_workers
  \* history variables of the relation map and of the worker count
  relations_passed,    \* the arguments of the set_relations_to_timestamps calls that stored
  relations_last,      \* the argument of the call that stored last
  rel_seen,            \* rel_seen[t]: relations_last when t's get call held the lock
  rel_sets,            \* set_relations_to_timestamps calls
  rel_gets,            \* get_relations_to_timestamps calls
  workers_calls,       \* set_num_workers calls
  add_failures,        \* add_elapsed calls that failed an assertion
  logger_lock,         \* self._logger_lock: Free or the thread holding it
  logger,              \* self._logger: None or the sink set_logger stored
  log_method,          \* log_method[t]: the sink method t's logger_* call forwards to
  log_arg,             \* log_arg[t]: the argument of t's set_logger call
  \* history variables of the logging
  log_calls,           \* logger_* calls
  set_logger_calls,    \* set_logger calls
  log_failures,        \* logger_* calls that ended with an exception
  cache_store,         \* cache_store[c]: the SimpleCache object c
  now,                 \* the clock the caches read
  cache_ret,           \* cache_ret[t]: what the cache's get returns to t
  \* history variables of the caches
  last_put,            \* last_put[<<c, key>>]: the time and value of the last put
  cache_seen,          \* cache_seen[t]: the clock and last_put when t's get ran
  cache_puts           \* puts into the caches

queue_vars == <<elapsed_queue, add_args, result, inserted, drain_mark, drains, snaps,
                drain_first, returned, discarded>>
random_vars == <<testing, random_lock, sequence_number, rand_tmp, rand_ret, mode,
                 test_returns, priority_calls, set_testing_calls, first_mode,
                 set_since_first>>
coord_vars == <<nodes_cache, pods_cache, services_cache, rcontrollers_cache,
                bounded_semaphore, init_gen, sem_value, acc_what, acc_ret,
                sem_ref, inits_begun, inits_done, acc_phase>>
cache_vars == <<cache_store, now, cache_ret, last_put, cache_seen, cache_puts>>
relations_vars == <<relations_lock, relations_to_timestamps, rel_arg, rel_ret,
                    relations_passed, relations_last, rel_seen, rel_sets, rel_gets>>
workers_vars == <<num_workers, workers_calls, add_failures>>
\* The state of the components that come after the queue, the priority
\* generator and the caches.
logger_vars == <<logger_lock, logger, log_method, log_arg, log_calls, set_logger_calls,
                 log_failures>>
facade_vars == <<relations_vars, workers_vars, logger_vars>>
vars == <<pc, queue_vars, random_vars, coord_vars, cache_vars, facade_vars>>

(***************************************************************************)
(* GlobalState.__init__                                                    *)
(***************************************************************************)
Init ==
  /\ pc = [t \in Threads |-> "idle"]
  /\ testing = FALSE
  /\ random_lock = Free
  /\ sequence_number = 0
  /\ nodes_cache = None
  /\ pods_cache = None
  /\ services_cache = None
  /\ rcontrollers_cache = None
  /\ bounded_semaphore = None
  /\ init_gen = [t \in Threads |-> 0]
  /\ sem_value = <<>>
  /\ elapsed_queue = <<>>
  /\ add_args = [t \in Threads |-> NoArgs]
  /\ result = [t \in Threads |-> <<>>]
  /\ rand_tmp = [t \in Threads |-> 0]
  /\ rand_ret = [t \in Threads |-> 0]
  /\ mode = [t \in Threads |-> "none"]
  /\ acc_what = [t \in Threads |-> "none"]
  /\ acc_ret = [t \in Threads |-> None]
  /\ sem_ref = [t \in Threads |-> None]
  /\ inserted = <<>>
  /\ drain_mark = 0
  /\ drains = 0
  /\ snaps = [t \in Threads |-> {}]
  /\ drain_first = [t \in Threads |-> NoRound]
  /\ returned = [n \in 1..MaxAdds |-> 0]
  /\ discarded = [n \in 1..MaxAdds |-> 0]
  /\ test_returns = <<>>
  /\ priority_calls = 0
  /\ set_testing_calls = 0
  /\ first_mode = "none"
  /\ set_since_first = FALSE
  /\ inits_begun = 0
  /\ inits_done = 0
  /\ acc_phase = [t \in Threads |-> "none"]
  /\ relations_lock = Free
  /\ relations_to_timestamps = PyValue("dict", EmptyMap)
  /\ rel_arg = [t \in Threads |-> NoValue]
  /\ rel_ret = [t \in Threads |-> NoValue]
  /\ num_workers = PyValue("int", 0)
  /\ relations_passed = {}
  /\ relations_last = PyValue("dict", EmptyMap)
  /\ rel_seen = [t \in Threads |-> NoValue]
  /\ rel_sets = 0
  /\ rel_gets = 0
  /\ workers_calls = 0
  /\ add_failures = 0
  /\ logger_lock = Free
  /\ logger = None
  /\ log_method = [t \in Threads |-> "none"]
  /\ log_arg = [t \in Threads |-> None]
  /\ log_calls = 0
  /\ set_logger_calls = 0
  /\ log_failures = 0
  /\ cache_store = <<>>
  /\ now = 0
  /\ cache_ret = [t \in Threads |-> NoResult]
  /\ last_put = <<>>
  /\ cache_seen = [t \in Threads |-> NoSight]
  /\ cache_puts = 0

Goto(t, label) == pc' = [pc EXCEPT ![t] = label]

(***************************************************************************)
(* The telemetry queue: add_elapsed and get_elapsed.  self._elapsed_queue  *)
(* is a Queue.Queue: qsize(), empty(), get(block=False) and put() are each *)
(* atomic, and nothing makes two of them in a row atomic.                  *)
(***************************************************************************)
AddLabels == {"add_check", "add_get", "add_put"}
GetLabels == {"get_check", "get_get", "get_done"}

\* add_elapsed calls begun: the puts done and the calls still running.
AddsBegun == Len(inserted) + Cardinality({t \in Threads : pc[t] \in AddLabels})

\* Queue.Queue.qsize() and Queue.Queue.empty()
qsize(q) == Len(q)
empty(q) == Len(q) = 0

\* The loop condition of add_elapsed.
QueueTooLargeOffByOne(q) == qsize(q) > MAX_ELAPSED_QUEUE_SIZE
QueueTooLarge(q) == qsize(q) >= MAX_ELAPSED_QUEUE_SIZE

\* Queue.Queue is a FIFO queue: put() adds at the tail, get() takes the head.
PutAtHead(q, rec) == <<rec>> \o q
Put(q, rec) == Append(q, rec)

\* The ElapsedRecord add_elapsed builds; n tells apart two records with the
\* same fields: it is the record's place among all the records ever put.
ElapsedRecord(t, args, n) ==
  [start_time |-> args.start_time, what |-> args.what, thread_identifier |-> t,
   elapsed_seconds |-> args.elapsed_seconds, n |-> n]

\* The queue takes content q: the threads inside get_elapsed record it.
Snap(q) ==
  snaps' = [t \in Threads |->
              IF pc[t] \in {"get_check", "get_get"} THEN snaps[t] \cup {q} ELSE snaps[t]]

\* add_elapsed is called with valid arguments: the three assertions pass.
AddBegin(t, start_time, what, elapsed_seconds) ==
  /\ pc[t] = "idle"
  /\ AddsBegun < MaxAdds
  /\ add_args' = [add_args EXCEPT ![t] =
       [start_time |-> start_time, what |-> what, elapsed_seconds |-> elapsed_seconds]]
  /\ Goto(t, "add_check")
  /\ UNCHANGED <<elapsed_queue, result, inserted, drain_mark, drains, snaps, drain_first,
               returned, discarded>>
  /\ UNCHANGED <<random_vars, coord_vars, cache_vars, facade_vars>>

\* while self._elapsed_queue.qsize() >= constants.MAX_ELAPSED_QUEUE_SIZE:
AddCheck(t) ==
  /\ pc[t] = "add_check"
  /\ Goto(t, IF QueueTooLarge(elapsed_queue) THEN "add_get" ELSE "add_put")
  /\ UNCHANGED <<queue_vars, random_vars, coord_vars, cache_vars, facade_vars>>

\* counts with one more for each record of recs.
Counted(counts, recs) ==
  [n \in DOMAIN counts |->
     counts[n] + Cardinality({i \in 1..Len(recs) : recs[i].n = n})]

\* The get of the discard loop with Queue.Empty not caught: it leaves the call.
AddGetEmptyNotCaught(t) ==
  /\ pc[t] = "add_get"
  /\ IF empty(elapsed_queue)
       THEN /\ Goto(t, "idle")
            /\ UNCHANGED <<elapsed_queue, snaps, discarded>>
       ELSE /\ elapsed_queue' = Tail(elapsed_queue)
            /\ discarded' = Counted(discarded, <<Head(elapsed_queue)>>)
            /\ Snap(Tail(elapsed_queue))
            /\ Goto(t, "add_check")
  /\ UNCHANGED <<add_args, result, inserted, drain_mark, drains, drain_first, returned>>
  /\ UNCHANGED <<random_vars, coord_vars, cache_vars, facade_vars>>

\* self._elapsed_queue.get(block=False); Queue.Empty breaks out of the loop.
AddGet(t) ==
  /\ pc[t] = "add_get"
  /\ IF empty(elapsed_queue)
       THEN /\ Goto(t, "add_put")
            /\ UNCHANGED <<elapsed_queue, snaps, discarded>>
       ELSE /\ elapsed_queue' = Tail(elapsed_queue)
            /\ discarded' = Counted(discarded, <<Head(elapsed_queue)>>)
            /\ Snap(Tail(elapsed_queue))
            /\ Goto(t, "add_check")
  /\ UNCHANGED <<add_args, result, inserted, drain_mark, drains, drain_first, returned>>
  /\ UNCHANGED <<random_vars, coord_vars, cache_vars, facade_vars>>

\* self._elapsed_queue.put(ElapsedRecord(...)), and the call returns.
AddPut(t) ==
  /\ pc[t] = "add_put"
  /\ LET rec == ElapsedRecord(t, add_args[t], Len(inserted) + 1)
     IN  /\ elapsed_queue' = Put(elapsed_queue, rec)
         /\ inserted' = Append(inserted, rec)
         /\ Snap(Put(elapsed_queue, rec))
  /\ add_args' = [add_args EXCEPT ![t] = NoArgs]
  /\ Goto(t, "idle")
  /\ UNCHANGED <<result, drain_mark, drains, drain_first, returned, discarded>>
  /\ UNCHANGED <<random_vars, coord_vars, cache_vars, facade_vars>>

\* Where the threads other than t are.
OtherThreads(t) == [u \in Threads \ {t} |-> pc[u]]

\* result = []
GetBegin(t) ==
  /\ pc[t] = "idle"
  /\ drains < MaxDrains
  /\ drains' = drains + 1
  /\ result' = [result EXCEPT ![t] = <<>>]
  /\ snaps' = [snaps EXCEPT ![t] = {elapsed_queue}]
  /\ drain_first' = [drain_first EXCEPT ![t] =
       [len |-> Len(elapsed_queue), others |-> OtherThreads(t), puts |-> Len(inserted)]]
  /\ Goto(t, "get_check")
  /\ UNCHANGED <<elapsed_queue, add_args, inserted, drain_mark, returned, discarded>>
  /\ UNCHANGED <<random_vars, coord_vars, cache_vars, facade_vars>>

\* while not self._elapsed_queue.empty():
GetCheck(t) ==
  /\ pc[t] = "get_check"
  /\ Goto(t, IF empty(elapsed_queue) THEN "get_done" ELSE "get_get")
  /\ UNCHANGED <<queue_vars, random_vars, coord_vars, cache_vars, facade_vars>>

\* result.append(x)
ResultPrepend(res, x) == <<x>> \o res
ResultAppend(res, x) == Append(res, x)

\* The get of get_elapsed as a blocking get: it waits for a record.
GetGetBlocking(t) ==
  /\ pc[t] = "get_get"
  /\ ~empty(elapsed_queue)
  /\ result' = [result EXCEPT ![t] = ResultAppend(result[t], Head(elapsed_queue))]
  /\ elapsed_queue' = Tail(elapsed_queue)
  /\ Snap(Tail(elapsed_queue))
  /\ Goto(t, "get_check")
  /\ UNCHANGED <<add_args, inserted, drain_mark, drains, drain_first, returned, discarded>>
  /\ UNCHANGED <<random_vars, coord_vars, cache_vars, facade_vars>>

\* The get of get_elapsed as a read of the head that leaves it in the queue.
GetGetKeepsHead(t) ==
  /\ pc[t] = "get_get"
  /\ IF empty(elapsed_queue)
       THEN /\ Goto(t, "get_done")
            /\ UNCHANGED <<elapsed_queue, result, snaps>>
       ELSE /\ result' = [result EXCEPT ![t] = ResultAppend(result[t], Head(elapsed_queue))]
            /\ UNCHANGED <<elapsed_queue, snaps>>
            /\ Goto(t, "get_check")
  /\ UNCHANGED <<add_args, inserted, drain_mark, drains, drain_first, returned, discarded>>
  /\ UNCHANGED <<random_vars, coord_vars, cache_vars, facade_vars>>

\* result.append(self._elapsed_queue.get(block=False)); Queue.Empty breaks out.
GetGet(t) ==
  /\ pc[t] = "get_get"
  /\ IF empty(elapsed_queue)
       THEN /\ Goto(t, "get_done")
            /\ UNCHANGED <<elapsed_queue, result, snaps>>
       ELSE /\ result' = [result EXCEPT ![t] = ResultAppend(result[t], Head(elapsed_queue))]
            /\ elapsed_queue' = Tail(elapsed_queue)
            /\ Snap(Tail(elapsed_queue))
            /\ Goto(t, "get_check")
  /\ UNCHANGED <<add_args, inserted, drain_mark, drains, drain_first, returned, discarded>>
  /\ UNCHANGED <<random_vars, coord_vars, cache_vars, facade_vars>>

\* return result: in "get_done" the caller has the list.
GetReturn(t) ==
  /\ pc[t] = "get_done"
  /\ result' = [result EXCEPT ![t] = <<>>]
  /\ snaps' = [snaps EXCEPT ![t] = {}]
  /\ drain_first' = [drain_first EXCEPT ![t] = NoRound]
  /\ drain_mark' = Len(inserted)
  /\ returned' = Counted(returned, result[t])
  /\ Goto(t, "idle")
  /\ UNCHANGED <<elapsed_queue, add_args, inserted, drains, discarded>>
  /\ UNCHANGED <<random_vars, coord_vars, cache_vars, facade_vars>>

QueueStep(t) ==
  \/ \E st \in StartTimes, w \in Labels, el \in ElapsedSeconds : AddBegin(t, st, w, el)
  \/ AddCheck(t)
  \/ AddGet(t)
  \/ AddPut(t)
  \/ GetBegin(t)
  \/ GetCheck(t)
  \/ GetGet(t)
  \/ GetReturn(t)

NextQueue == \E t \in Threads : QueueStep(t)

\* Any number of threads in add_elapsed and get_elapsed at once.
SpecQueue == Init /\ [][NextQueue]_vars

\* The steps of a thread inside add_elapsed or get_elapsed.
QueueRun(t) ==
  \/ AddCheck(t)
  \/ AddGet(t)
  \/ AddPut(t)
  \/ GetCheck(t)
  \/ GetGet(t)
  \/ GetReturn(t)

\* The scheduler lets every thread that is inside a call go on.
FairQueue == \A t \in Threads : WF_vars(QueueRun(t))

SpecQueueFair == Init /\ [][NextQueue]_vars /\ FairQueue

\* No other thread is inside a call.
Alone(t) == \A u \in Threads \ {t} : pc[u] = "idle"

NextQueueSeq ==
  \E t \in Threads :
    \/ \E st \in StartTimes, w \in Labels, el \in ElapsedSeconds :
         Alone(t) /\ AddBegin(t, st, w, el)
    \/ AddCheck(t)
    \/ AddGet(t)
    \/ AddPut(t)
    \/ Alone(t) /\ GetBegin(t)
    \/ GetCheck(t)
    \/ GetGet(t)
    \/ GetReturn(t)

\* The calls of add_elapsed and get_elapsed never overlap.
SpecQueueSeq == Init /\ [][NextQueueSeq]_vars

(***************************************************************************)
(* The priority generator: set_testing and get_random_priority.  The body  *)
(* of get_random_priority runs under self._random_lock; set_testing stores *)
(* self._testing without any lock.                                         *)
(***************************************************************************)
\* self._random_generator.randint(0, 1000): the two ends stand for the range.
RANDOM_LOW == 0
RANDOM_HIGH == 1000
RandomValues == {RANDOM_LOW, RANDOM_HIGH}

\* if self._testing: ... else: ...
ModeOf(flag) == IF flag THEN "testing" ELSE "production"

\* set_testing(testing): one attribute store.
SetTesting(t, v) ==
  /\ pc[t] = "idle"
  /\ set_testing_calls < MaxSetTesting
  /\ set_testing_calls' = set_testing_calls + 1
  /\ testing' = v
  /\ set_since_first' = (set_since_first \/ first_mode # "none")
  /\ UNCHANGED <<pc, random_lock, sequence_number, rand_tmp, rand_ret, mode,
                 test_returns, priority_calls, first_mode>>
  /\ UNCHANGED <<queue_vars, coord_vars, cache_vars, facade_vars>>

\* get_random_priority is called.
RandBegin(t) ==
  /\ pc[t] = "idle"
  /\ priority_calls < MaxPriorityCalls
  /\ priority_calls' = priority_calls + 1
  /\ Goto(t, "rand_acquire")
  /\ UNCHANGED <<testing, random_lock, sequence_number, rand_tmp, rand_ret, mode,
                 test_returns, set_testing_calls, first_mode, set_since_first>>
  /\ UNCHANGED <<queue_vars, coord_vars, cache_vars, facade_vars>>

\* The lock taken without waiting for it to be free.
RandLockNoWait(t) ==
  /\ pc[t] = "rand_acquire"
  /\ random_lock' = t
  /\ Goto(t, "rand_test")
  /\ UNCHANGED <<testing, sequence_number, rand_tmp, rand_ret, mode, test_returns,
                 priority_calls, set_testing_calls, first_mode, set_since_first>>
  /\ UNCHANGED <<queue_vars, coord_vars, cache_vars, facade_vars>>

\* with self._random_lock: the thread waits until the lock is free and takes it.
RandLock(t) ==
  /\ pc[t] = "rand_acquire"
  /\ random_lock = Free
  /\ random_lock' = t
  /\ Goto(t, "rand_test")
  /\ UNCHANGED <<testing, sequence_number, rand_tmp, rand_ret, mode, test_returns,
                 priority_calls, set_testing_calls, first_mode, set_since_first>>
  /\ UNCHANGED <<queue_vars, coord_vars, cache_vars, facade_vars>>

\* if self._testing:
RandTest(t) ==
  /\ pc[t] = "rand_test"
  /\ mode' = [mode EXCEPT ![t] = ModeOf(testing)]
  /\ first_mode' = IF first_mode = "none" THEN ModeOf(testing) ELSE first_mode
  /\ Goto(t, IF testing THEN "rand_load" ELSE "rand_prod")
  /\ UNCHANGED <<testing, random_lock, sequence_number, rand_tmp, rand_ret,
                 test_returns, priority_calls, set_testing_calls, set_since_first>>
  /\ UNCHANGED <<queue_vars, coord_vars, cache_vars, facade_vars>>

\* self._sequence_number += 1, its load
RandLoad(t) ==
  /\ pc[t] = "rand_load"
  /\ rand_tmp' = [rand_tmp EXCEPT ![t] = sequence_number]
  /\ Goto(t, "rand_store")
  /\ UNCHANGED <<testing, random_lock, sequence_number, rand_ret, mode, test_returns,
                 priority_calls, set_testing_calls, first_mode, set_since_first>>
  /\ UNCHANGED <<queue_vars, coord_vars, cache_vars, facade_vars>>

\* The store of the increment, leaving testing mode as well.
RandStoreLeavesTesting(t) ==
  /\ pc[t] = "rand_store"
  /\ sequence_number' = rand_tmp[t] + 1
  /\ testing' = FALSE
  /\ Goto(t, "rand_return")
  /\ UNCHANGED <<random_lock, rand_tmp, rand_ret, mode, test_returns,
                 priority_calls, set_testing_calls, first_mode, set_since_first>>
  /\ UNCHANGED <<queue_vars, coord_vars, cache_vars, facade_vars>>

\* self._sequence_number += 1, its store
RandStore(t) ==
  /\ pc[t] = "rand_store"
  /\ sequence_number' = rand_tmp[t] + 1
  /\ Goto(t, "rand_return")
  /\ UNCHANGED <<testing, random_lock, rand_tmp, rand_ret, mode, test_returns,
                 priority_calls, set_testing_calls, first_mode, set_since_first>>
  /\ UNCHANGED <<queue_vars, coord_vars, cache_vars, facade_vars>>

\* return self._sequence_number, and the with block releases the lock.
RandReturnSequence(t) ==
  /\ pc[t] = "rand_return"
  /\ rand_ret' = [rand_ret EXCEPT ![t] = sequence_number]
  /\ test_returns' = Append(test_returns, [thread |-> t, value |-> sequence_number])
  /\ random_lock' = Free
  /\ Goto(t, "rand_done")
  /\ UNCHANGED <<testing, sequence_number, rand_tmp, mode, priority_calls,
                 set_testing_calls, first_mode, set_since_first>>
  /\ UNCHANGED <<queue_vars, coord_vars, cache_vars, facade_vars>>

\* get_random_priority returning without the release of the lock.
RandReturnRandomKeepsLock(t) ==
  /\ pc[t] = "rand_prod"
  /\ \E r \in RandomValues : rand_ret' = [rand_ret EXCEPT ![t] = r]
  /\ Goto(t, "rand_done")
  /\ UNCHANGED <<testing, random_lock, sequence_number, rand_tmp, mode, test_returns,
                 priority_calls, set_testing_calls, first_mode, set_since_first>>
  /\ UNCHANGED <<queue_vars, coord_vars, cache_vars, facade_vars>>

\* return self._random_generator.randint(0, 1000), and the lock is released.
RandReturnRandom(t) ==
  /\ pc[t] = "rand_prod"
  /\ \E r \in RandomValues : rand_ret' = [rand_ret EXCEPT ![t] = r]
  /\ random_lock' = Free
  /\ Goto(t, "rand_done")
  /\ UNCHANGED <<testing, sequence_number, rand_tmp, mode, test_returns,
                 priority_calls, set_testing_calls, first_mode, set_since_first>>
  /\ UNCHANGED <<queue_vars, coord_vars, cache_vars, facade_vars>>

\* In "rand_done" the caller has the priority; then it goes on.
RandDone(t) ==
  /\ pc[t] = "rand_done"
  /\ rand_tmp' = [rand_tmp EXCEPT ![t] = 0]
  /\ rand_ret' = [rand_ret EXCEPT ![t] = 0]
  /\ mode' = [mode EXCEPT ![t] = "none"]
  /\ Goto(t, "idle")
  /\ UNCHANGED <<testing, random_lock, sequence_number, test_returns,
                 priority_calls, set_testing_calls, first_mode, set_since_first>>
  /\ UNCHANGED <<queue_vars, coord_vars, cache_vars, facade_vars>>

PriorityStep(t) ==
  \/ \E v \in BOOLEAN : SetTesting(t, v)
  \/ RandBegin(t)
  \/ RandLock(t)
  \/ RandTest(t)
  \/ RandLoad(t)
  \/ RandStore(t)
  \/ RandReturnSequence(t)
  \/ RandReturnRandom(t)
  \/ RandDone(t)

NextPriority == \E t \in Threads : PriorityStep(t)

\* Any number of threads in set_testing and get_random_priority at once.
SpecPriority == Init /\ [][NextPriority]_vars

(***************************************************************************)
(* The caches and the admission semaphore: init_caches_and_synchronization *)
(* and the five accessors.  init_caches_and_synchronization is five stores *)
(* in a row, each of a new object, under no lock.  The calls are numbered, *)
(* and a reference to an object is the number of the call that made it:    *)
(* nodes_cache = 2 is the nodes cache that the second call made.           *)
(***************************************************************************)
InitLabels == {"init_pods", "init_services", "init_rcontrollers", "init_semaphore"}

\* The number of the call that begins.
NewCall == inits_begun + 1

\* threading.BoundedSemaphore(constants.MAX_CONCURRENT_COMPUTE_GRAPH)
InitialPermitsOneMore == MAX_CONCURRENT_COMPUTE_GRAPH + 1
InitialPermitsOneLess == MAX_CONCURRENT_COMPUTE_GRAPH - 1
InitialPermits == MAX_CONCURRENT_COMPUTE_GRAPH

\* The cache made with its two ages in the other order.
NewSimpleCacheAgesSwapped ==
  [max_age |-> CACHE_DATA_CLEANUP_AGE_SECONDS,
   cleanup_age |-> MAX_CACHED_DATA_AGE_SECONDS,
   entries |-> <<>>]
\* simple_cache.SimpleCache(constants.MAX_CACHED_DATA_AGE_SECONDS,
\*                          constants.CACHE_DATA_CLEANUP_AGE_SECONDS): a new, empty cache
NewSimpleCache ==
  [max_age |-> MAX_CACHED_DATA_AGE_SECONDS,
   cleanup_age |-> CACHE_DATA_CLEANUP_AGE_SECONDS,
   entries |-> <<>>]

\* self._nodes_cache = simple_cache.SimpleCache(...): the call begins.
InitNodesCache(t) ==
  /\ pc[t] = "idle"
  /\ inits_begun < MaxInits
  /\ inits_begun' = NewCall
  /\ init_gen' = [init_gen EXCEPT ![t] = NewCall]
  /\ nodes_cache' = NewCall
  /\ Goto(t, "init_pods")
  /\ UNCHANGED <<pods_cache, services_cache, rcontrollers_cache, bounded_semaphore,
                 sem_value, acc_what, acc_ret, sem_ref, inits_done, acc_phase>>
  /\ cache_store' = (<<"nodes", NewCall>> :> NewSimpleCache) @@ cache_store
  /\ UNCHANGED <<now, cache_ret, last_put, cache_seen, cache_puts>>
  /\ UNCHANGED <<queue_vars, random_vars, facade_vars>>

\* self._pods_cache = simple_cache.SimpleCache(...)
InitPodsCache(t) ==
  /\ pc[t] = "init_pods"
  /\ pods_cache' = init_gen[t]
  /\ Goto(t, "init_services")
  /\ UNCHANGED <<nodes_cache, services_cache, rcontrollers_cache, bounded_semaphore,
                 init_gen, sem_value,
                 acc_what, acc_ret, sem_ref, inits_begun, inits_done,
                 acc_phase>>
  /\ cache_store' = (<<"pods", init_gen[t]>> :> NewSimpleCache) @@ cache_store
  /\ UNCHANGED <<now, cache_ret, last_put, cache_seen, cache_puts>>
  /\ UNCHANGED <<queue_vars, random_vars, facade_vars>>

\* self._services_cache = simple_cache.SimpleCache(...)
InitServicesCache(t) ==
  /\ pc[t] = "init_services"
  /\ services_cache' = init_gen[t]
  /\ Goto(t, "init_rcontrollers")
  /\ UNCHANGED <<nodes_cache, pods_cache, rcontrollers_cache, bounded_semaphore,
                 init_gen, sem_value,
                 acc_what, acc_ret, sem_ref, inits_begun, inits_done,
                 acc_phase>>
  /\ cache_store' = (<<"services", init_gen[t]>> :> NewSimpleCache) @@ cache_store
  /\ UNCHANGED <<now, cache_ret, last_put, cache_seen, cache_puts>>
  /\ UNCHANGED <<queue_vars, random_vars, facade_vars>>

\* The fourth cache stored in self._services_cache a second time.
InitRcontrollersCacheIntoServices(t) ==
  /\ pc[t] = "init_rcontrollers"
  /\ services_cache' = init_gen[t]
  /\ Goto(t, "init_semaphore")
  /\ UNCHANGED <<nodes_cache, pods_cache, rcontrollers_cache, bounded_semaphore,
                 init_gen, sem_value,
                 acc_what, acc_ret, sem_ref, inits_begun, inits_done,
                 acc_phase>>
  /\ cache_store' = (<<"services", init_gen[t]>> :> NewSimpleCache) @@ cache_store
  /\ UNCHANGED <<now, cache_ret, last_put, cache_seen, cache_puts>>
  /\ UNCHANGED <<queue_vars, random_vars, facade_vars>>

\* self._rcontrollers_cache = simple_cache.SimpleCache(...)
InitRcontrollersCache(t) ==
  /\ pc[t] = "init_rcontrollers"
  /\ rcontrollers_cache' = init_gen[t]
  /\ Goto(t, "init_semaphore")
  /\ UNCHANGED <<nodes_cache, pods_cache, services_cache, bounded_semaphore,
                 init_gen, sem_value,
                 acc_what, acc_ret, sem_ref, inits_begun, inits_done,
                 acc_phase>>
  /\ cache_store' = (<<"rcontrollers", init_gen[t]>> :> NewSimpleCache) @@ cache_store
  /\ UNCHANGED <<now, cache_ret, last_put, cache_seen, cache_puts>>
  /\ UNCHANGED <<queue_vars, random_vars, facade_vars>>

\* self._bounded_semaphore = threading.BoundedSemaphore(...), and the call returns.
InitBoundedSemaphore(t) ==
  /\ pc[t] = "init_semaphore"
  /\ bounded_semaphore' = init_gen[t]
  /\ sem_value' = (init_gen[t] :> InitialPermits) @@ sem_value
  /\ init_gen' = [init_gen EXCEPT ![t] = 0]
  /\ inits_done' = inits_done + 1
  /\ Goto(t, "idle")
  /\ UNCHANGED <<nodes_cache, pods_cache, services_cache, rcontrollers_cache,
                 acc_what, acc_ret, sem_ref, inits_begun, acc_phase>>
  /\ UNCHANGED <<queue_vars, random_vars, cache_vars, facade_vars>>

\* When a call runs, with respect to the calls of init_caches_and_synchronization.
Phase ==
  IF inits_begun = 0 THEN "before" ELSE IF inits_done > 0 THEN "after" ELSE "during"

\* An accessor: 'return self._<attribute>', with nothing before it.
Accessor(t, what, attribute) ==
  /\ pc[t] = "idle"
  /\ acc_what' = [acc_what EXCEPT ![t] = what]
  /\ acc_ret' = [acc_ret EXCEPT ![t] = attribute]
  /\ acc_phase' = [acc_phase EXCEPT ![t] = Phase]
  /\ Goto(t, "acc_done")
  /\ UNCHANGED <<nodes_cache, pods_cache, services_cache, rcontrollers_cache,
                 bounded_semaphore, init_gen, sem_value, sem_ref, inits_begun,
                 inits_done>>
  /\ UNCHANGED <<queue_vars, random_vars, cache_vars, facade_vars>>

GetNodesCache(t) == Accessor(t, "nodes", nodes_cache)
GetPodsCache(t) == Accessor(t, "pods", pods_cache)
GetServicesCache(t) == Accessor(t, "services", services_cache)
GetRcontrollersCache(t) == Accessor(t, "rcontrollers", rcontrollers_cache)

\* An accessor that makes the semaphore it returns.
GetBoundedSemaphoreFresh(t) ==
  /\ pc[t] = "idle"
  /\ inits_done > 0
  /\ inits_begun <= MaxInits
  /\ inits_begun' = NewCall
  /\ bounded_semaphore' = NewCall
  /\ sem_value' = (NewCall :> InitialPermits) @@ sem_value
  /\ acc_what' = [acc_what EXCEPT ![t] = "semaphore"]
  /\ acc_ret' = [acc_ret EXCEPT ![t] = NewCall]
  /\ acc_phase' = [acc_phase EXCEPT ![t] = Phase]
  /\ Goto(t, "acc_done")
  /\ UNCHANGED <<nodes_cache, pods_cache, services_cache, rcontrollers_cache,
                 init_gen, sem_ref, inits_done>>
  /\ UNCHANGED <<queue_vars, random_vars, cache_vars, facade_vars>>

GetBoundedSemaphore(t) == Accessor(t, "semaphore", bounded_semaphore)

\* In "acc_done" the caller has what the accessor returned; here it drops it.
AccessorDone(t) ==
  /\ pc[t] = "acc_done"
  /\ acc_what' = [acc_what EXCEPT ![t] = "none"]
  /\ acc_ret' = [acc_ret EXCEPT ![t] = None]
  /\ acc_phase' = [acc_phase EXCEPT ![t] = "none"]
  /\ Goto(t, "idle")
  /\ UNCHANGED <<nodes_cache, pods_cache, services_cache, rcontrollers_cache,
                 bounded_semaphore, init_gen, sem_value, sem_ref, inits_begun,
                 inits_done>>
  /\ UNCHANGED <<queue_vars, random_vars, cache_vars, facade_vars>>

(***************************************************************************)
(* The callers of get_bounded_semaphore acquire the semaphore they got,    *)
(* hold it and release it.  threading.BoundedSemaphore: acquire() waits    *)
(* until a permit is free and takes it; release() gives one back, and      *)
(* raises ValueError instead when all the permits are already free.        *)
(***************************************************************************)
\* get_bounded_semaphore().acquire() is called: the thread starts to wait.
SemAcquireBegin(t) ==
  /\ pc[t] = "acc_done"
  /\ acc_what[t] = "semaphore"
  /\ acc_ret[t] # None
  /\ sem_ref' = [sem_ref EXCEPT ![t] = acc_ret[t]]
  /\ acc_what' = [acc_what EXCEPT ![t] = "none"]
  /\ acc_ret' = [acc_ret EXCEPT ![t] = None]
  /\ acc_phase' = [acc_phase EXCEPT ![t] = "none"]
  /\ Goto(t, "sem_wait")
  /\ UNCHANGED <<nodes_cache, pods_cache, services_cache, rcontrollers_cache,
                 bounded_semaphore, init_gen, sem_value, inits_begun, inits_done>>
  /\ UNCHANGED <<queue_vars, random_vars, cache_vars, facade_vars>>

\* acquire() returns: a permit was free and the thread has taken it.
SemAcquire(t) ==
  /\ pc[t] = "sem_wait"
  /\ sem_value[sem_ref[t]] > 0
  /\ sem_value' = [sem_value EXCEPT ![sem_ref[t]] = @ - 1]
  /\ Goto(t, "sem_held")
  /\ UNCHANGED <<nodes_cache, pods_cache, services_cache, rcontrollers_cache,
                 bounded_semaphore, init_gen, acc_what, acc_ret, sem_ref,
                 inits_begun, inits_done, acc_phase>>
  /\ UNCHANGED <<queue_vars, random_vars, cache_vars, facade_vars>>

\* release()
SemRelease(t) ==
  /\ pc[t] = "sem_held"
  /\ sem_value' = IF sem_value[sem_ref[t]] >= InitialPermits
                    THEN sem_value     \* ValueError
                    ELSE [sem_value EXCEPT ![sem_ref[t]] = @ + 1]
  /\ sem_ref' = [sem_ref EXCEPT ![t] = None]
  /\ Goto(t, "idle")
  /\ UNCHANGED <<nodes_cache, pods_cache, services_cache, rcontrollers_cache,
                 bounded_semaphore, init_gen, acc_what, acc_ret, inits_begun,
                 inits_done, acc_phase>>
  /\ UNCHANGED <<queue_vars, random_vars, cache_vars, facade_vars>>

CoordinatorStep(t) ==
  \/ InitNodesCache(t)
  \/ InitPodsCache(t)
  \/ InitServicesCache(t)
  \/ InitRcontrollersCache(t)
  \/ InitBoundedSemaphore(t)
  \/ GetNodesCache(t)
  \/ GetPodsCache(t)
  \/ GetServicesCache(t)
  \/ GetRcontrollersCache(t)
  \/ GetBoundedSemaphore(t)
  \/ AccessorDone(t)
  \/ SemAcquireBegin(t)
  \/ SemAcquire(t)
  \/ SemRelease(t)

NextCoordinator == \E t \in Threads : CoordinatorStep(t)

\* Any number of threads initializing, in the accessors and at the semaphore.
SpecCoordinator == Init /\ [][NextCoordinator]_vars

\* The steps of the threads that initialize and of those that use the semaphore.
SemaphoreStep(t) ==
  \/ InitNodesCache(t)
  \/ InitPodsCache(t)
  \/ InitServicesCache(t)
  \/ InitRcontrollersCache(t)
  \/ InitBoundedSemaphore(t)
  \/ GetBoundedSemaphore(t)
  \/ AccessorDone(t)
  \/ SemAcquireBegin(t)
  \/ SemAcquire(t)
  \/ SemRelease(t)

NextSemaphore == \E t \in Threads : SemaphoreStep(t)

\* The scheduler lets a holder release, and lets a waiting thread that can take
\* a permit again and again take one.
FairSemaphore ==
  \A t \in Threads : WF_vars(SemRelease(t)) /\ SF_vars(SemAcquire(t))

SpecSemaphoreFair == Init /\ [][NextSemaphore]_vars /\ FairSemaphore

(***************************************************************************)
(* The four caches.  simple_cache.SimpleCache is not part of               *)
(* global_state.py: its put, get and sweep are modelled from the contract  *)
(* of the TTL cache.  A thread gets a cache from its accessor and calls    *)
(* one operation on it; every operation of a cache runs under that cache's *)
(* own lock, so it is one step.                                            *)
(***************************************************************************)
\* The cache that thread t got from an accessor.
CacheOf(t) == <<acc_what[t], acc_ret[t]>>

HasCache(t) ==
  /\ pc[t] = "acc_done"
  /\ acc_what[t] \in CacheKinds
  /\ acc_ret[t] # None

\* An entry is fresh when it is younger than max_age.
IsFresh(c, entry, time) == time - entry.inserted_at < c.max_age

\* get(key): the value of the entry if there is one and it is fresh.
Lookup(c, key, time) ==
  IF key \in DOMAIN c.entries /\ IsFresh(c, c.entries[key], time)
    THEN Hit(c.entries[key].value)
    ELSE Miss

\* put(key, value): a new entry with the current time, in place of the old.
Update(c, key, value, time) ==
  [c EXCEPT !.entries = (key :> [value |-> value, inserted_at |-> time]) @@ c.entries]

\* sweep(): without the entries that are cleanup_age old or older.
Sweep(c, time) ==
  [c EXCEPT !.entries =
     [k \in {x \in DOMAIN c.entries : time - c.entries[x].inserted_at < c.cleanup_age}
        |-> c.entries[k]]]

\* The caller drops the reference the accessor returned.
DropCache(t) ==
  /\ acc_what' = [acc_what EXCEPT ![t] = "none"]
  /\ acc_ret' = [acc_ret EXCEPT ![t] = None]
  /\ acc_phase' = [acc_phase EXCEPT ![t] = "none"]
  /\ UNCHANGED <<nodes_cache, pods_cache, services_cache, rcontrollers_cache,
                 bounded_semaphore, init_gen, sem_value, sem_ref, inits_begun,
                 inits_done>>

\* get_<kind>_cache().put(key, value)
CachePut(t, key, value) ==
  /\ HasCache(t)
  /\ cache_puts < MaxCachePuts
  /\ cache_puts' = cache_puts + 1
  /\ cache_store' = [cache_store EXCEPT ![CacheOf(t)] = Update(@, key, value, now)]
  /\ last_put' = (<<CacheOf(t), key>> :> [exists |-> TRUE, time |-> now, value |-> value])
                   @@ last_put
  /\ DropCache(t)
  /\ Goto(t, "idle")
  /\ UNCHANGED <<now, cache_ret, cache_seen>>
  /\ UNCHANGED <<queue_vars, random_vars, facade_vars>>

\* get_<kind>_cache().get(key)
CacheGet(t, key) ==
  /\ HasCache(t)
  /\ cache_ret' = [cache_ret EXCEPT ![t] = Lookup(cache_store[CacheOf(t)], key, now)]
  /\ cache_seen' = [cache_seen EXCEPT ![t] =
       [now |-> now,
        put |-> IF <<CacheOf(t), key>> \in DOMAIN last_put
                  THEN last_put[<<CacheOf(t), key>>] ELSE NoPut]]
  /\ Goto(t, "cache_got")
  /\ UNCHANGED <<cache_store, now, last_put, cache_puts>>
  /\ UNCHANGED <<queue_vars, random_vars, coord_vars, facade_vars>>

\* In "cache_got" the caller has what get returned; then it goes on.
CacheGetDone(t) ==
  /\ pc[t] = "cache_got"
  /\ cache_ret' = [cache_ret EXCEPT ![t] = NoResult]
  /\ cache_seen' = [cache_seen EXCEPT ![t] = NoSight]
  /\ DropCache(t)
  /\ Goto(t, "idle")
  /\ UNCHANGED <<cache_store, now, last_put, cache_puts>>
  /\ UNCHANGED <<queue_vars, random_vars, facade_vars>>

\* get_<kind>_cache().sweep()
CacheSweep(t) ==
  /\ HasCache(t)
  /\ cache_store' = [cache_store EXCEPT ![CacheOf(t)] = Sweep(@, now)]
  /\ DropCache(t)
  /\ Goto(t, "idle")
  /\ UNCHANGED <<now, cache_ret, last_put, cache_seen, cache_puts>>
  /\ UNCHANGED <<queue_vars, random_vars, facade_vars>>

\* Time passes.
Tick ==
  /\ now < MaxTime
  /\ now' = now + 1
  /\ UNCHANGED <<cache_store, cache_ret, last_put, cache_seen, cache_puts>>
  /\ UNCHANGED <<pc, queue_vars, random_vars, coord_vars, facade_vars>>

\* A thread may use the caches: they are initialized and no call is running.
MayUseCaches(t) == inits_done > 0 /\ Alone(t)

CacheStep(t) ==
  \/ inits_begun = 0 /\ InitNodesCache(t)
  \/ InitPodsCache(t)
  \/ InitServicesCache(t)
  \/ InitRcontrollersCache(t)
  \/ InitBoundedSemaphore(t)
  \/ MayUseCaches(t) /\ GetNodesCache(t)
  \/ MayUseCaches(t) /\ GetPodsCache(t)
  \/ MayUseCaches(t) /\ GetServicesCache(t)
  \/ MayUseCaches(t) /\ GetRcontrollersCache(t)
  \/ \E key \in CacheKeys : CachePut(t, key, cache_puts + 1)
  \/ \E key \in CacheKeys : CacheGet(t, key)
  \/ CacheGetDone(t)
  \/ CacheSweep(t)

NextCache == Tick \/ \E t \in Threads : CacheStep(t)

\* The coordinator used as its class comment asks: one initialization, then
\* the threads use the caches it made, one call after the other, while time
\* passes.
SpecCache == Init /\ [][NextCache]_vars

(***************************************************************************)
(* The relation map: get_relations_to_timestamps and                       *)
(* set_relations_to_timestamps.  The map is one attribute holding a        *)
(* reference to a dict; both methods touch it under self._relations_lock.  *)
(***************************************************************************)
RaisedLabels == {"relset_raised", "workers_raised", "add_raised"}

\* isinstance(v, types.DictType)
IsAnyType(v) == TRUE
IsDictType(v) == v.type = "dict"

\* The map merged into the one installed, as dict.update would.
StoreRelationsMerged(old, v) == PyValue("dict", v.value @@ old.value)
\* self._relations_to_timestamps = v
StoreRelations(old, v) == v

\* set_relations_to_timestamps(v) is called: the assertion passes or raises
\* AssertionError.
SetRelations(t, v) ==
  /\ pc[t] = "idle"
  /\ rel_sets < MaxRelationSets
  /\ rel_sets' = rel_sets + 1
  /\ IF IsDictType(v)
       THEN /\ rel_arg' = [rel_arg EXCEPT ![t] = v]
            /\ Goto(t, "relset_acquire")
       ELSE /\ Goto(t, "relset_raised")
            /\ UNCHANGED rel_arg
  /\ UNCHANGED <<relations_lock, relations_to_timestamps, rel_ret, relations_passed,
                 relations_last, rel_seen, rel_gets>>
  /\ UNCHANGED <<queue_vars, random_vars, coord_vars, cache_vars, workers_vars, logger_vars>>

\* The lock taken without waiting for it to be free.
RelSetLockNoWait(t) ==
  /\ pc[t] = "relset_acquire"
  /\ relations_lock' = t
  /\ Goto(t, "relset_store")
  /\ UNCHANGED <<relations_to_timestamps, rel_arg, rel_ret, relations_passed,
                 relations_last, rel_seen, rel_sets, rel_gets>>
  /\ UNCHANGED <<queue_vars, random_vars, coord_vars, cache_vars, workers_vars, logger_vars>>

\* with self._relations_lock: the thread waits until the lock is free.
RelSetLock(t) ==
  /\ pc[t] = "relset_acquire"
  /\ relations_lock = Free
  /\ relations_lock' = t
  /\ Goto(t, "relset_store")
  /\ UNCHANGED <<relations_to_timestamps, rel_arg, rel_ret, relations_passed,
                 relations_last, rel_seen, rel_sets, rel_gets>>
  /\ UNCHANGED <<queue_vars, random_vars, coord_vars, cache_vars, workers_vars, logger_vars>>

\* self._relations_to_timestamps = v
RelSetStore(t) ==
  /\ pc[t] = "relset_store"
  /\ relations_to_timestamps' = StoreRelations(relations_to_timestamps, rel_arg[t])
  /\ relations_passed' = relations_passed \cup {rel_arg[t]}
  /\ relations_last' = rel_arg[t]
  /\ Goto(t, "relset_release")
  /\ UNCHANGED <<relations_lock, rel_arg, rel_ret, rel_seen, rel_sets, rel_gets>>
  /\ UNCHANGED <<queue_vars, random_vars, coord_vars, cache_vars, workers_vars, logger_vars>>

\* The with block ends: the lock is released and the call returns.
RelSetUnlock(t) ==
  /\ pc[t] = "relset_release"
  /\ relations_lock' = Free
  /\ rel_arg' = [rel_arg EXCEPT ![t] = NoValue]
  /\ Goto(t, "idle")
  /\ UNCHANGED <<relations_to_timestamps, rel_ret, relations_passed, relations_last,
                 rel_seen, rel_sets, rel_gets>>
  /\ UNCHANGED <<queue_vars, random_vars, coord_vars, cache_vars, workers_vars, logger_vars>>

\* get_relations_to_timestamps is called.
GetRelations(t) ==
  /\ pc[t] = "idle"
  /\ rel_gets < MaxRelationGets
  /\ rel_gets' = rel_gets + 1
  /\ Goto(t, "relget_acquire")
  /\ UNCHANGED <<relations_lock, relations_to_timestamps, rel_arg, rel_ret,
                 relations_passed, relations_last, rel_seen, rel_sets>>
  /\ UNCHANGED <<queue_vars, random_vars, coord_vars, cache_vars, workers_vars, logger_vars>>

\* with self._relations_lock:
RelGetLock(t) ==
  /\ pc[t] = "relget_acquire"
  /\ relations_lock = Free
  /\ relations_lock' = t
  /\ Goto(t, "relget_load")
  /\ UNCHANGED <<relations_to_timestamps, rel_arg, rel_ret, relations_passed,
                 relations_last, rel_seen, rel_sets, rel_gets>>
  /\ UNCHANGED <<queue_vars, random_vars, coord_vars, cache_vars, workers_vars, logger_vars>>

\* return self._relations_to_timestamps: the value to return is loaded.
RelGetLoad(t) ==
  /\ pc[t] = "relget_load"
  /\ rel_ret' = [rel_ret EXCEPT ![t] = relations_to_timestamps]
  /\ rel_seen' = [rel_seen EXCEPT ![t] = relations_last]
  /\ Goto(t, "relget_release")
  /\ UNCHANGED <<relations_lock, relations_to_timestamps, rel_arg, relations_passed,
                 relations_last, rel_sets, rel_gets>>
  /\ UNCHANGED <<queue_vars, random_vars, coord_vars, cache_vars, workers_vars, logger_vars>>

\* The with block ends: the lock is released and the caller has the map.
RelGetUnlock(t) ==
  /\ pc[t] = "relget_release"
  /\ relations_lock' = Free
  /\ Goto(t, "relget_done")
  /\ UNCHANGED <<relations_to_timestamps, rel_arg, rel_ret, relations_passed,
                 relations_last, rel_seen, rel_sets, rel_gets>>
  /\ UNCHANGED <<queue_vars, random_vars, coord_vars, cache_vars, workers_vars, logger_vars>>

\* In "relget_done" the caller has the map; then it goes on.
RelGetDone(t) ==
  /\ pc[t] = "relget_done"
  /\ rel_ret' = [rel_ret EXCEPT ![t] = NoValue]
  /\ rel_seen' = [rel_seen EXCEPT ![t] = NoValue]
  /\ Goto(t, "idle")
  /\ UNCHANGED <<relations_lock, relations_to_timestamps, rel_arg, relations_passed,
                 relations_last, rel_sets, rel_gets>>
  /\ UNCHANGED <<queue_vars, random_vars, coord_vars, cache_vars, workers_vars, logger_vars>>

\* In a "raised" label the AssertionError is with the caller; then it goes on.
ErrorDone(t) ==
  /\ pc[t] \in RaisedLabels
  /\ Goto(t, "idle")
  /\ UNCHANGED <<queue_vars, random_vars, coord_vars, cache_vars, facade_vars>>

RelationsStep(t) ==
  \/ \E v \in RelationArgs : SetRelations(t, v)
  \/ RelSetLock(t)
  \/ RelSetStore(t)
  \/ RelSetUnlock(t)
  \/ GetRelations(t)
  \/ RelGetLock(t)
  \/ RelGetLoad(t)
  \/ RelGetUnlock(t)
  \/ RelGetDone(t)
  \/ ErrorDone(t)

NextRelations == \E t \in Threads : RelationsStep(t)

\* Any number of threads setting and getting the relation map at once.
SpecRelations == Init /\ [][NextRelations]_vars

(***************************************************************************)
(* The assertions on the arguments: set_num_workers, and add_elapsed       *)
(* called with an argument that fails one of its three assertions.         *)
(***************************************************************************)
\* isinstance(workers, types.IntType)
IsIntType(v) == v.type = "int"

\* isinstance(start_time, types.FloatType)
IsFloatType(v) == v.type = "float"

\* utilities.valid_string(url_or_fname)
valid_string(x) == x.valid

\* set_num_workers(workers): the assertion, then one attribute store.
SetNumWorkers(t, workers) ==
  /\ pc[t] = "idle"
  /\ workers_calls < MaxWorkersCalls
  /\ workers_calls' = workers_calls + 1
  /\ IF IsIntType(workers)
       THEN /\ num_workers' = workers
            /\ UNCHANGED pc
       ELSE /\ Goto(t, "workers_raised")
            /\ UNCHANGED num_workers
  /\ UNCHANGED add_failures
  /\ UNCHANGED <<queue_vars, random_vars, coord_vars, cache_vars, relations_vars, logger_vars>>

\* add_elapsed is called with an argument that fails its assertion.
AddAssertionError(t, start_time, url_or_fname, elapsed_seconds) ==
  /\ pc[t] = "idle"
  /\ add_failures < MaxAddFailures
  /\ ~ (/\ IsFloatType(start_time)
        /\ valid_string(url_or_fname)
        /\ IsFloatType(elapsed_seconds))
  /\ add_failures' = add_failures + 1
  /\ Goto(t, "add_raised")
  /\ UNCHANGED <<num_workers, workers_calls>>
  /\ UNCHANGED <<queue_vars, random_vars, coord_vars, cache_vars, relations_vars, logger_vars>>

\* The arguments that pass the assertions of add_elapsed.
ValidTimes == {a.value : a \in {x \in TimeArgs : IsFloatType(x)}}
ValidLabels == {a.value : a \in {x \in LabelArgs : valid_string(x)}}

\* The calls that check an argument, and the calls that change what they guard.
ArgumentsStep(t) ==
  \/ \E v \in RelationArgs : Alone(t) /\ SetRelations(t, v)
  \/ RelSetLock(t)
  \/ RelSetStore(t)
  \/ RelSetUnlock(t)
  \/ \E w \in WorkersArgs : Alone(t) /\ SetNumWorkers(t, w)
  \/ \E st \in TimeArgs, w \in LabelArgs, el \in TimeArgs :
       Alone(t) /\ AddAssertionError(t, st, w, el)
  \/ \E st \in ValidTimes, w \in ValidLabels, el \in ValidTimes :
       Alone(t) /\ AddBegin(t, st, w, el)
  \/ AddCheck(t)
  \/ AddGet(t)
  \/ AddPut(t)
  \/ ErrorDone(t)

NextArguments == \E t \in Threads : ArgumentsStep(t)

\* The calls of the threads, one after the other: a call begins when no call
\* is running.
SpecArguments == Init /\ [][NextArguments]_vars

(***************************************************************************)
(* The logging: set_logger and logger_debug .. logger_exception.  Each     *)
(* method runs its one statement under self._logger_lock; a with block     *)
(* releases the lock when the statement returns and when it raises.        *)
(***************************************************************************)
\* The sinks a caller injects, and the six methods of the sink.
Sinks == {1}
SinkMethods == {"debug", "info", "warning", "error", "fatal", "exception"}

\* The labels at which a thread holds self._logger_lock.
LoggerLockedLabels ==
  {"log_forward", "log_in_sink", "log_release", "log_failing",
   "setlog_store", "setlog_release"}

\* set_logger(logger) is called.
SetLogger(t, sink) ==
  /\ pc[t] = "idle"
  /\ set_logger_calls < MaxSetLogger
  /\ set_logger_calls' = set_logger_calls + 1
  /\ log_arg' = [log_arg EXCEPT ![t] = sink]
  /\ Goto(t, "setlog_acquire")
  /\ UNCHANGED <<logger_lock, logger, log_method, log_calls, log_failures>>
  /\ UNCHANGED <<queue_vars, random_vars, coord_vars, cache_vars, relations_vars, workers_vars>>

\* with self._logger_lock:
SetLogLock(t) ==
  /\ pc[t] = "setlog_acquire"
  /\ logger_lock = Free
  /\ logger_lock' = t
  /\ Goto(t, "setlog_store")
  /\ UNCHANGED <<logger, log_method, log_arg, log_calls, set_logger_calls, log_failures>>
  /\ UNCHANGED <<queue_vars, random_vars, coord_vars, cache_vars, relations_vars, workers_vars>>

\* self._logger = logger
SetLogStore(t) ==
  /\ pc[t] = "setlog_store"
  /\ logger' = log_arg[t]
  /\ Goto(t, "setlog_release")
  /\ UNCHANGED <<logger_lock, log_method, log_arg, log_calls, set_logger_calls,
                 log_failures>>
  /\ UNCHANGED <<queue_vars, random_vars, coord_vars, cache_vars, relations_vars, workers_vars>>

\* The with block ends: the lock is released and set_logger returns.
SetLogUnlock(t) ==
  /\ pc[t] = "setlog_release"
  /\ logger_lock' = Free
  /\ log_arg' = [log_arg EXCEPT ![t] = None]
  /\ Goto(t, "idle")
  /\ UNCHANGED <<logger, log_method, log_calls, set_logger_calls, log_failures>>
  /\ UNCHANGED <<queue_vars, random_vars, coord_vars, cache_vars, relations_vars, workers_vars>>

\* logger_debug(*args), logger_info(*args), ...: the method that forwards to
\* the sink's method m is called.
LoggerCall(t, m) ==
  /\ pc[t] = "idle"
  /\ log_calls < MaxLogCalls
  /\ log_calls' = log_calls + 1
  /\ log_method' = [log_method EXCEPT ![t] = m]
  /\ Goto(t, "log_acquire")
  /\ UNCHANGED <<logger_lock, logger, log_arg, set_logger_calls, log_failures>>
  /\ UNCHANGED <<queue_vars, random_vars, coord_vars, cache_vars, relations_vars, workers_vars>>

\* The lock taken without waiting for it to be free.
LogLockNoWait(t) ==
  /\ pc[t] = "log_acquire"
  /\ logger_lock' = t
  /\ Goto(t, "log_forward")
  /\ UNCHANGED <<logger, log_method, log_arg, log_calls, set_logger_calls, log_failures>>
  /\ UNCHANGED <<queue_vars, random_vars, coord_vars, cache_vars, relations_vars, workers_vars>>

\* with self._logger_lock: the thread waits until the lock is free and takes it.
LogLock(t) ==
  /\ pc[t] = "log_acquire"
  /\ logger_lock = Free
  /\ logger_lock' = t
  /\ Goto(t, "log_forward")
  /\ UNCHANGED <<logger, log_method, log_arg, log_calls, set_logger_calls, log_failures>>
  /\ UNCHANGED <<queue_vars, random_vars, coord_vars, cache_vars, relations_vars, workers_vars>>

\* self._logger.debug(*args): with no sink set, the attribute lookup on None
\* raises AttributeError; otherwise the sink's method starts to run.
LogForward(t) ==
  /\ pc[t] = "log_forward"
  /\ Goto(t, IF logger = None THEN "log_failing" ELSE "log_in_sink")
  /\ UNCHANGED <<queue_vars, random_vars, coord_vars, cache_vars, facade_vars>>

\* The sink's method returns.
SinkReturn(t) ==
  /\ pc[t] = "log_in_sink"
  /\ Goto(t, "log_release")
  /\ UNCHANGED <<queue_vars, random_vars, coord_vars, cache_vars, facade_vars>>

\* The sink's method raises an exception.
SinkRaise(t) ==
  /\ pc[t] = "log_in_sink"
  /\ Goto(t, "log_failing")
  /\ UNCHANGED <<queue_vars, random_vars, coord_vars, cache_vars, facade_vars>>

\* The with block ends normally: the lock is released and the call returns.
LogUnlock(t) ==
  /\ pc[t] = "log_release"
  /\ logger_lock' = Free
  /\ log_method' = [log_method EXCEPT ![t] = "none"]
  /\ Goto(t, "idle")
  /\ UNCHANGED <<logger, log_arg, log_calls, set_logger_calls, log_failures>>
  /\ UNCHANGED <<queue_vars, random_vars, coord_vars, cache_vars, relations_vars, workers_vars>>

\* The exception leaving the method with the lock still held.
LogRaiseKeepsLock(t) ==
  /\ pc[t] = "log_failing"
  /\ log_failures' = log_failures + 1
  /\ Goto(t, "log_raised")
  /\ UNCHANGED <<logger_lock, logger, log_method, log_arg, log_calls, set_logger_calls>>
  /\ UNCHANGED <<queue_vars, random_vars, coord_vars, cache_vars, relations_vars, workers_vars>>

\* The with block ends by an exception: the lock is released and the
\* exception goes on to the caller.
LogUnlockRaise(t) ==
  /\ pc[t] = "log_failing"
  /\ logger_lock' = Free
  /\ log_failures' = log_failures + 1
  /\ Goto(t, "log_raised")
  /\ UNCHANGED <<logger, log_method, log_arg, log_calls, set_logger_calls>>
  /\ UNCHANGED <<queue_vars, random_vars, coord_vars, cache_vars, relations_vars, workers_vars>>

\* In "log_raised" the exception is with the caller; then it goes on.
LogRaisedDone(t) ==
  /\ pc[t] = "log_raised"
  /\ log_method' = [log_method EXCEPT ![t] = "none"]
  /\ Goto(t, "idle")
  /\ UNCHANGED <<logger_lock, logger, log_arg, log_calls, set_logger_calls, log_failures>>
  /\ UNCHANGED <<queue_vars, random_vars, coord_vars, cache_vars, relations_vars, workers_vars>>

LoggerStep(t) ==
  \/ \E sink \in Sinks : SetLogger(t, sink)
  \/ SetLogLock(t)
  \/ SetLogStore(t)
  \/ SetLogUnlock(t)
  \/ \E m \in SinkMethods : LoggerCall(t, m)
  \/ LogLock(t)
  \/ LogForward(t)
  \/ SinkReturn(t)
  \/ SinkRaise(t)
  \/ LogUnlock(t)
  \/ LogUnlockRaise(t)
  \/ LogRaisedDone(t)

NextLogger == \E t \in Threads : LoggerStep(t)

\* Any number of threads in set_logger and in the logger_* methods at once.
SpecLogger == Init /\ [][NextLogger]_vars

(***************************************************************************)
(* The methods that take a lock, the queue and the semaphore together: a   *)
(* thread calls one method after the other, in any order.                  *)
(***************************************************************************)
\* The calls begun, of all the methods that count their calls.
LockCalls ==
  priority_calls + set_testing_calls + log_calls + set_logger_calls + rel_sets
    + rel_gets + inits_begun + AddsBegun + drains

\* A call can begin.
MayCall == LockCalls < MaxLockCalls

LocksStep(t) ==
  \/ \E v \in BOOLEAN : MayCall /\ SetTesting(t, v)
  \/ MayCall /\ RandBegin(t)
  \/ RandLock(t)
  \/ RandTest(t)
  \/ RandLoad(t)
  \/ RandStore(t)
  \/ RandReturnSequence(t)
  \/ RandReturnRandom(t)
  \/ RandDone(t)
  \/ \E sink \in Sinks : MayCall /\ SetLogger(t, sink)
  \/ SetLogLock(t)
  \/ SetLogStore(t)
  \/ SetLogUnlock(t)
  \/ \E m \in SinkMethods : MayCall /\ LoggerCall(t, m)
  \/ LogLock(t)
  \/ LogForward(t)
  \/ SinkReturn(t)
  \/ SinkRaise(t)
  \/ LogUnlock(t)
  \/ LogUnlockRaise(t)
  \/ LogRaisedDone(t)
  \/ \E v \in RelationArgs : MayCall /\ SetRelations(t, v)
  \/ RelSetLock(t)
  \/ RelSetStore(t)
  \/ RelSetUnlock(t)
  \/ MayCall /\ GetRelations(t)
  \/ RelGetLock(t)
  \/ RelGetLoad(t)
  \/ RelGetUnlock(t)
  \/ RelGetDone(t)
  \/ ErrorDone(t)
  \/ \E st \in StartTimes, w \in Labels, el \in ElapsedSeconds :
       MayCall /\ AddBegin(t, st, w, el)
  \/ AddCheck(t)
  \/ AddGet(t)
  \/ AddPut(t)
  \/ MayCall /\ GetBegin(t)
  \/ GetCheck(t)
  \/ GetGet(t)
  \/ GetReturn(t)
  \/ MayCall /\ InitNodesCache(t)
  \/ InitPodsCache(t)
  \/ InitServicesCache(t)
  \/ InitRcontrollersCache(t)
  \/ InitBoundedSemaphore(t)
  \/ GetBoundedSemaphore(t)
  \/ AccessorDone(t)
  \/ SemAcquireBegin(t)
  \/ SemAcquire(t)
  \/ SemRelease(t)

NextLocks == \E t \in Threads : LocksStep(t)

SpecLocks == Init /\ [][NextLocks]_vars

\* The methods that write the state of the priority generator, of the relation
\* map, of the logging and the worker count.
WritesStep(t) ==
  \/ \E v \in BOOLEAN : MayCall /\ SetTesting(t, v)
  \/ MayCall /\ RandBegin(t)
  \/ RandLock(t)
  \/ RandTest(t)
  \/ RandLoad(t)
  \/ RandStore(t)
  \/ RandReturnSequence(t)
  \/ RandReturnRandom(t)
  \/ RandDone(t)
  \/ \E sink \in Sinks : MayCall /\ SetLogger(t, sink)
  \/ SetLogLock(t)
  \/ SetLogStore(t)
  \/ SetLogUnlock(t)
  \/ \E v \in RelationArgs : MayCall /\ SetRelations(t, v)
  \/ RelSetLock(t)
  \/ RelSetStore(t)
  \/ RelSetUnlock(t)
  \/ MayCall /\ GetRelations(t)
  \/ RelGetLock(t)
  \/ RelGetLoad(t)
  \/ RelGetUnlock(t)
  \/ RelGetDone(t)
  \/ \E w \in WorkersArgs : MayCall /\ SetNumWorkers(t, w)
  \/ ErrorDone(t)

NextWrites == \E t \in Threads : WritesStep(t)

SpecWrites == Init /\ [][NextWrites]_vars

(***************************************************************************)
(* All the methods together.                                               *)
(***************************************************************************)
Next == \E t \in Threads : QueueStep(t) \/ PriorityStep(t) \/ CoordinatorStep(t)

Spec == Init /\ [][Next]_vars

(***************************************************************************)
(* The properties.                                                         *)
(***************************************************************************)
AllIdle == \A t \in Threads : pc[t] = "idle"

\* The last k elements of s, or all of s when it has fewer.
LastRecords(s, k) == IF Len(s) <= k THEN s ELSE SubSeq(s, Len(s) - k + 1, Len(s))

\* The records put since the last get_elapsed call returned.
SinceDrain == SubSeq(inserted, drain_mark + 1, Len(inserted))

\* The threads holding a permit of semaphore s.
Holders(s) == {t \in Threads : pc[t] = "sem_held" /\ sem_ref[t] = s}

\* C1: with add_elapsed and get_elapsed calls interleaved in any way, the queue
\* never holds more than MAX_ELAPSED_QUEUE_SIZE records (the queue grows only
\* by the put that ends an add_elapsed call).
C1_QueueNeverExceedsCapacity == Len(elapsed_queue) <= MAX_ELAPSED_QUEUE_SIZE

\* C2: when the add_elapsed calls do not overlap and no get_elapsed was called,
\* after each call the queue holds the last min(n, MAX_ELAPSED_QUEUE_SIZE)
\* records put, in the order of their insertion.
C2_SequentialAddsKeepTheLastRecords ==
  (drains = 0 /\ AllIdle) =>
     /\ elapsed_queue = LastRecords(inserted, MAX_ELAPSED_QUEUE_SIZE)
     /\ Len(elapsed_queue) <= MAX_ELAPSED_QUEUE_SIZE

\* C2's case: more calls than the capacity, so the oldest record was discarded.
C2_Witness ==
  /\ drains = 0
  /\ AllIdle
  /\ Len(inserted) > MAX_ELAPSED_QUEUE_SIZE
  /\ Len(elapsed_queue) = MAX_ELAPSED_QUEUE_SIZE
  /\ Head(elapsed_queue).n = Len(inserted) - MAX_ELAPSED_QUEUE_SIZE + 1

\* C3 as stated: the list get_elapsed returns is the content the queue had at
\* one instant of the call.
C3_DrainReturnsOneSnapshot ==
  \A t \in Threads : pc[t] = "get_done" => result[t] \in snaps[t]

\* C3 as amended: the list get_elapsed has built is in insertion order, holds
\* records that were put, and every record in it was put before every record
\* that is in the queue.
C3_DrainTakesTheOldestFirst ==
  \A t \in Threads :
    pc[t] \in GetLabels =>
      /\ \A i \in 1..Len(result[t]) :
           /\ result[t][i].n \in 1..Len(inserted)
           /\ inserted[result[t][i].n] = result[t][i]
      /\ \A i, j \in 1..Len(result[t]) : i < j => result[t][i].n < result[t][j].n
      /\ \A i \in 1..Len(result[t]), k \in 1..Len(elapsed_queue) :
           result[t][i].n < elapsed_queue[k].n

\* C3's case: a get_elapsed call returns a list that the queue never held, and
\* leaves records in the queue.
C3_Witness ==
  \E t \in Threads :
    /\ pc[t] = "get_done"
    /\ Len(result[t]) >= 2
    /\ result[t] \notin snaps[t]
    /\ elapsed_queue # <<>>

\* C4 as stated: with no concurrent calls, get_elapsed returns all the records
\* put since the previous get_elapsed call, in insertion order.
C4_DrainReturnsAllSinceLastDrain ==
  \A t \in Threads : pc[t] = "get_done" => result[t] = SinceDrain

\* C4 as amended: with no concurrent calls, get_elapsed returns the last
\* min(n, MAX_ELAPSED_QUEUE_SIZE) of the n records put since the previous
\* get_elapsed call, in insertion order, and leaves the queue empty; so a
\* get_elapsed call right after another returns the empty list.
C4_DrainReturnsTheLastSinceLastDrain ==
  \A t \in Threads :
    pc[t] = "get_done" =>
      /\ result[t] = LastRecords(SinceDrain, MAX_ELAPSED_QUEUE_SIZE)
      /\ elapsed_queue = <<>>
      /\ SinceDrain = <<>> => result[t] = <<>>

\* C4's case: a second get_elapsed call right after a first one that returned
\* records.
C4_Witness ==
  \E t \in Threads :
    /\ pc[t] = "get_done"
    /\ drains = 2
    /\ drain_mark > 0
    /\ SinceDrain = <<>>
    /\ result[t] = <<>>

\* C5: the values get_random_priority returns in testing mode are 1, 2, ..., N,
\* each once, whatever the threads and their interleaving; the values a thread
\* gets are increasing; and the value a call returns is the one it logged.
C5_TestingPrioritiesAreConsecutive ==
  /\ \A i \in 1..Len(test_returns) : test_returns[i].value = i
  /\ \A i, j \in 1..Len(test_returns) :
       (i < j /\ test_returns[i].thread = test_returns[j].thread)
          => test_returns[i].value < test_returns[j].value
  /\ \A t \in Threads :
       (pc[t] = "rand_done" /\ mode[t] = "testing") =>
          /\ rand_ret[t] \in 1..Len(test_returns)
          /\ test_returns[rand_ret[t]] = [thread |-> t, value |-> rand_ret[t]]

\* C5's case: every call of the behaviour ran in testing mode, from two threads.
C5_Witness ==
  /\ Len(test_returns) = MaxPriorityCalls
  /\ \E i, j \in 1..Len(test_returns) : test_returns[i].thread # test_returns[j].thread

\* C6 as stated: every get_random_priority call runs in the mode of the first.
C6_ModeIsFixedAfterTheFirstCall ==
  \A t \in Threads : mode[t] \in {"none", first_mode}

\* C6 as amended: a get_random_priority call runs in another mode than the
\* first call only if set_testing was called after the first call took its mode.
C6_ModeChangesOnlyBySetTesting ==
  \A t \in Threads : (mode[t] # "none" /\ mode[t] # first_mode) => set_since_first

\* C6's case: a call has returned in another mode than the first call.
C6_Witness ==
  \E t \in Threads :
    /\ pc[t] = "rand_done"
    /\ first_mode # "none"
    /\ mode[t] # first_mode
    /\ set_since_first

\* C7 as stated: no accessor called before init_caches_and_synchronization
\* returns; it fails.
C7_AccessorBeforeInitFails ==
  \A t \in Threads : pc[t] = "acc_done" => acc_phase[t] # "before"

\* C7 as amended: an accessor called before init_caches_and_synchronization
\* returns None, and one called after a call of it completed returns an object.
C7_AccessorReturnsTheAttribute ==
  \A t \in Threads :
    pc[t] = "acc_done" =>
      /\ acc_phase[t] = "before" => acc_ret[t] = None
      /\ acc_phase[t] = "after" => acc_ret[t] # None

\* C7's case: get_bounded_semaphore, called before the initialization, has
\* returned None.
C7_Witness ==
  \E t \in Threads :
    /\ pc[t] = "acc_done"
    /\ acc_what[t] = "semaphore"
    /\ acc_phase[t] = "before"
    /\ acc_ret[t] = None

\* C8: at most MAX_CONCURRENT_COMPUTE_GRAPH threads hold a permit of a
\* semaphore that get_bounded_semaphore returned.
C8_SemaphoreBound ==
  \A s \in DOMAIN sem_value : Cardinality(Holders(s)) <= MAX_CONCURRENT_COMPUTE_GRAPH

\* C8's case: every permit of a semaphore is held and one more thread wants one.
C8_Witness ==
  \E s \in DOMAIN sem_value :
    /\ Cardinality(Holders(s)) = MAX_CONCURRENT_COMPUTE_GRAPH
    /\ \E t \in Threads : pc[t] = "sem_wait" /\ sem_ref[t] = s

InitStep(t) ==
  \/ InitNodesCache(t)
  \/ InitPodsCache(t)
  \/ InitServicesCache(t)
  \/ InitRcontrollersCache(t)
  \/ InitBoundedSemaphore(t)

shape == <<nodes_cache, pods_cache, services_cache, rcontrollers_cache,
           bounded_semaphore>>

\* C10 as stated: once init_caches_and_synchronization has run, the objects
\* the accessors return never change.
C10_ShapeIsFixedAfterInit == [][inits_done > 0 => shape' = shape]_vars

\* C10 as amended: only a step of init_caches_and_synchronization changes an
\* object the accessors return, and no semaphore is ever resized: its free
\* permits and its holders add up to its capacity.
C10_OnlyInitChangesTheShape ==
  /\ [][shape' # shape => \E t \in Threads : InitStep(t)]_vars
  /\ [](\A s \in DOMAIN sem_value :
          /\ sem_value[s] \in 0..MAX_CONCURRENT_COMPUTE_GRAPH
          /\ sem_value[s] + Cardinality(Holders(s)) = MAX_CONCURRENT_COMPUTE_GRAPH)

\* C10's case: init_caches_and_synchronization ran twice, and a thread holds
\* a permit of the semaphore the second run replaced.
C10_Witness ==
  /\ inits_done = 2
  /\ \E t \in Threads :
       pc[t] = "sem_held" /\ sem_ref[t] # bounded_semaphore /\ sem_value[bounded_semaphore] = MAX_CONCURRENT_COMPUTE_GRAPH

\* C11: get_relations_to_timestamps returns the empty map of __init__ or the
\* map one set_relations_to_timestamps call passed: the one of the call that
\* stored last when the get held the lock; never a mix of two calls' entries.
C11_GetReturnsOneSetCallsMap ==
  \A t \in Threads :
    pc[t] \in {"relget_release", "relget_done"} =>
      /\ rel_ret[t] \in {PyValue("dict", EmptyMap)} \cup relations_passed
      /\ rel_ret[t] = rel_seen[t]

\* C11's case: two set calls stored different maps, and a get call that ran
\* after both has returned.
C11_Witness ==
  \E t \in Threads :
    /\ pc[t] = "relget_done"
    /\ Cardinality(relations_passed) = 2
    /\ rel_ret[t] = relations_last

\* What the assertions guard.
guarded == <<relations_to_timestamps, num_workers, elapsed_queue>>

\* C12: a call with an invalid argument raises AssertionError in a step that
\* leaves the relation map, the worker count and the queue as they were; so
\* the relation map is always a dict and the worker count always an int.
C12_InvalidArgumentChangesNothing ==
  /\ [][\A t \in Threads :
          (pc[t] \notin RaisedLabels /\ pc'[t] \in RaisedLabels) => guarded' = guarded]_vars
  /\ [](/\ relations_to_timestamps.type = "dict"
        /\ num_workers.type = "int"
        /\ \A t \in Threads : pc[t] = "relset_store" => rel_arg[t].type = "dict")

\* C12's case: the three kinds of call have failed, on a coordinator whose
\* relation map, worker count and queue had already been set.
C12_Witness ==
  /\ rel_sets = MaxRelationSets
  /\ workers_calls = MaxWorkersCalls
  /\ add_failures > 0
  /\ \E t \in Threads : pc[t] \in RaisedLabels
  /\ relations_to_timestamps.value # EmptyMap
  /\ Cardinality(relations_passed) = 1
  /\ num_workers = PyValue("int", 2)
  /\ elapsed_queue # <<>>

\* The threads running a method of the sink.
InSink == {t \in Threads : pc[t] = "log_in_sink"}

\* C13: at most one thread at a time runs a method of the sink, and it holds
\* the logger lock, whatever logger_* methods the threads call.
C13_OneThreadInTheSink ==
  /\ Cardinality(InSink) <= 1
  /\ \A t \in InSink : logger_lock = t

\* C13's case: a thread is in the sink and another, in a call of another
\* logger_* method, waits for the lock.
C13_Witness ==
  \E t, u \in Threads :
    /\ pc[t] = "log_in_sink"
    /\ pc[u] = "log_acquire"
    /\ log_method[t] # log_method[u]

\* C14: a logger_* call in which the forwarding fails (no sink set, or the
\* sink raises) ends with the exception at the caller, and the logger lock is
\* held only by a thread inside a with block: it is free whenever no thread is
\* inside a call.
C14_LockReleasedOnFailure ==
  /\ [][\A t \in Threads :
          pc[t] = "log_failing" => pc'[t] \in {"log_failing", "log_raised"}]_vars
  /\ [](/\ logger_lock # Free => pc[logger_lock] \in LoggerLockedLabels
        /\ AllIdle => logger_lock = Free)

\* C14's case: two calls have failed, one with no sink set and one in the sink,
\* and a later call is running the sink.
C14_Witness ==
  /\ log_failures = 2
  /\ logger # None
  /\ \E t \in Threads : pc[t] = "log_in_sink"

\* The locks of the coordinator that thread t holds.
HeldLocks(t) ==
  {l \in {"random", "logger", "relations"} :
     \/ l = "random" /\ random_lock = t
     \/ l = "logger" /\ logger_lock = t
     \/ l = "relations" /\ relations_lock = t}

\* The thread holding the lock that thread t waits for; Free when t does not
\* wait for a lock or the lock is free.
AwaitedHolder(t) ==
  CASE pc[t] = "rand_acquire" -> random_lock
    [] pc[t] \in {"log_acquire", "setlog_acquire"} -> logger_lock
    [] pc[t] \in {"relset_acquire", "relget_acquire"} -> relations_lock
    [] OTHER -> Free

\* Thread t is inside a call and cannot take a step.
Blocked(t) == pc[t] # "idle" /\ ~ENABLED LocksStep(t)

\* C15: a thread holds at most one of the three locks, and none at the
\* semaphore; a thread that cannot take a step waits for a permit, or for a
\* lock whose holder can take a step.  (Queue.Queue takes and releases its
\* own lock inside each of its calls, which are single steps here.)
C15_NoDeadlockOnTheLocks ==
  \A t \in Threads :
    /\ Cardinality(HeldLocks(t)) <= 1
    /\ pc[t] \in {"idle", "sem_wait", "sem_held"} => HeldLocks(t) = {}
    /\ pc[t] \in AddLabels \cup GetLabels => HeldLocks(t) = {}
    /\ (Blocked(t) /\ pc[t] # "sem_wait") =>
          /\ AwaitedHolder(t) \in Threads \ {t}
          /\ ~Blocked(AwaitedHolder(t))

\* C15's case: a thread waits for a lock that another thread holds, inside a
\* sink method, and cannot take a step until that thread releases it.
C15_Witness ==
  \E t, u \in Threads :
    /\ Blocked(t)
    /\ pc[t] = "log_acquire"
    /\ AwaitedHolder(t) = u
    /\ pc[u] = "log_in_sink"

\* What get must return when the last put for the key was p and the clock
\* reads time.
Expected(p, time) ==
  IF p.exists /\ time - p.time < MAX_CACHED_DATA_AGE_SECONDS THEN Hit(p.value) ELSE Miss

\* C16: the get of a cache returns the value of the last put for the key into
\* that cache if there was one less than MAX_CACHED_DATA_AGE_SECONDS ago, and
\* a miss otherwise, swept or not; and a put into a cache leaves what the get
\* of every other cache returns as it was.
C16_GetReturnsOnlyFreshEntries ==
  /\ [](\A t \in Threads :
          pc[t] = "cache_got" => cache_ret[t] = Expected(cache_seen[t].put, cache_seen[t].now))
  /\ [][\A t \in Threads :
          (HasCache(t) /\ cache_puts' # cache_puts /\ pc'[t] = "idle") =>
             \A c \in DOMAIN cache_store \ {CacheOf(t)}, key \in CacheKeys :
                Lookup(cache_store'[c], key, now') = Lookup(cache_store[c], key, now)]_vars

\* C16's case: a get reports a miss for an entry that is too old and still in
\* the cache.
C16_Witness ==
  \E t \in Threads :
    /\ pc[t] = "cache_got"
    /\ cache_ret[t] = Miss
    /\ cache_seen[t].put.exists
    /\ \E key \in CacheKeys : key \in DOMAIN cache_store[CacheOf(t)].entries

\* The holder of the lock takes the step.
StepOfHolder(lock) == lock # Free /\ pc'[lock] # pc[lock]

\* C17 as stated: the counter and the mode flag change only in a step of the
\* holder of the random lock, the relation map only in a step of the holder of
\* the relations lock, the sink only in a step of the holder of the logger lock.
C17_EveryWriteUnderItsLock ==
  [][/\ (sequence_number' # sequence_number \/ testing' # testing)
          => StepOfHolder(random_lock)
     /\ relations_to_timestamps' # relations_to_timestamps => StepOfHolder(relations_lock)
     /\ logger' # logger => StepOfHolder(logger_lock)]_vars

\* C17 as amended: the counter, the relation map and the sink change only in
\* a step of the holder of their lock; the mode flag and the worker count
\* change in a step of set_testing and set_num_workers, which take no lock and
\* are one step of a thread outside any other call.
C17_WritesUnderTheLockButTheFlag ==
  [][/\ sequence_number' # sequence_number => StepOfHolder(random_lock)
     /\ relations_to_timestamps' # relations_to_timestamps => StepOfHolder(relations_lock)
     /\ logger' # logger => StepOfHolder(logger_lock)
     /\ (testing' # testing \/ num_workers' # num_workers) =>
          /\ pc' = pc
          /\ <<random_lock, relations_lock, logger_lock>>'
               = <<random_lock, relations_lock, logger_lock>>]_vars

\* C17's case: a thread that found the flag set holds the random lock, inside
\* 'self._sequence_number += 1', and another thread has cleared the flag.
C17_Witness ==
  \E t \in Threads :
    /\ random_lock = t
    /\ pc[t] \in {"rand_load", "rand_store", "rand_return"}
    /\ ~testing

\* The records that thread t has put.
RecordsOf(t) == Cardinality({i \in 1..Len(inserted) : inserted[i].thread_identifier = t})

BackWhereItBegan(t) ==
  /\ pc[t] = "get_check"
  /\ result[t] # <<>>
  /\ Len(elapsed_queue) = drain_first[t].len
  /\ OtherThreads(t) = drain_first[t].others
  /\ \E i \in (drain_first[t].puts + 1)..Len(inserted) : inserted[i].thread_identifier # t
  /\ \A u \in Threads \ {t} :
       pc[u] # "idle" =>
         \E i \in (drain_first[t].puts + 1)..Len(inserted) : inserted[i].thread_identifier = u

\* C19 as stated: a get_elapsed call returns whatever the other threads do.
\* Every step of add_elapsed and get_elapsed depends only on where the threads
\* are and on the length of the queue; so the call must never be back at the
\* head of its loop with both as they were when it began, after steps of every
\* thread inside a call: the same steps could run again and again, with the
\* other threads calling add_elapsed again each time, and the call not return.
C19_DrainReturnsWhateverTheOthersDo ==
  \A t \in Threads : ~BackWhereItBegan(t)

\* C19 as amended: no step of add_elapsed or get_elapsed waits for another
\* thread, a get_elapsed call that finds the queue empty returns, and with
\* finitely many add_elapsed calls every get_elapsed call returns.
C19_NeverWaitsAndReturnsOnceAddsStop ==
  /\ [](\A t \in Threads : pc[t] \in AddLabels \cup GetLabels => ENABLED QueueRun(t))
  /\ [][\A t \in Threads :
          (pc[t] \in {"get_check", "get_get"} /\ empty(elapsed_queue) /\ pc'[t] # pc[t])
             => pc'[t] = "get_done"]_vars
  /\ \A t \in Threads : (pc[t] \in GetLabels) ~> (pc[t] = "idle")

\* C19's case: a get_elapsed call has taken more records than the queue held
\* when it began, and the queue is not empty yet.
C19_Witness ==
  \E t \in Threads :
    /\ pc[t] = "get_check"
    /\ Len(result[t]) > drain_first[t].len
    /\ ~empty(elapsed_queue)

\* How many times record number n occurs in the list recs.
Occurrences(recs, n) == Cardinality({i \in 1..Len(recs) : recs[i].n = n})

\* How many times record number n occurs in the results of the get_elapsed
\* calls that have not returned yet.
InResults(n) ==
  Cardinality({p \in UNION {{t} \X (1..Len(result[t])) : t \in Threads} :
                 result[p[1]][p[2]].n = n})

\* The places record number n is in: the queue, the result of a get_elapsed
\* call in progress, a returned result, the discards of add_elapsed.
Places(n) == Occurrences(elapsed_queue, n) + InResults(n) + returned[n] + discarded[n]

\* C20: every record put is in exactly one place: in the queue, in the result
\* of one get_elapsed call (in progress or returned), or discarded by one
\* add_elapsed call, and no other record is anywhere; so no record is returned
\* by two calls. In the result of one get_elapsed call the records of one
\* producer thread are in the order that thread put them.
C20_RecordsConserved ==
  /\ \A n \in 1..MaxAdds : Places(n) = IF n <= Len(inserted) THEN 1 ELSE 0
  /\ \A i \in 1..Len(elapsed_queue) :
        elapsed_queue[i] = inserted[elapsed_queue[i].n]
  /\ \A t \in Threads :
        /\ \A i \in 1..Len(result[t]) : result[t][i] = inserted[result[t][i].n]
        /\ \A i, j \in 1..Len(result[t]) :
              (i < j /\ result[t][i].thread_identifier = result[t][j].thread_identifier)
                 => result[t][i].n < result[t][j].n

\* C20's case: two get_elapsed calls run at once and each has taken a record,
\* after an add_elapsed call discarded one.
C20_Witness ==
  \E t, u \in Threads :
    /\ t # u
    /\ pc[t] \in GetLabels /\ result[t] # <<>>
    /\ pc[u] \in GetLabels /\ result[u] # <<>>
    /\ \E n \in 1..MaxAdds : discarded[n] = 1

====
